---------------------------- MODULE Spec2Model ----------------------------
(***************************************************************************)
(* A model of SEMNANSolver (src/semnan_cuda.cpp): the constructor          *)
(* (init_parameters, make_structures), set_sample_covariance, the lazily   *)
(* cached inverse / log-determinant of the sample covariance, the two      *)
(* Kullback-Leibler loss queries, forward and backward.                    *)
(*                                                                         *)
(* C++ vectors and tensors are 0-based; they are modelled as functions     *)
(* with domain 0..n-1 ("arrays").  A tensor whose values do not matter is  *)
(* its shape ("dims") only.  Node indices are the code's: a latent node is *)
(* p in -L..-1, a visible node is p in 0..V-1, and row p+L of the          *)
(* structure matrix is node p.                                             *)
(***************************************************************************)
EXTENDS Integers, Sequences, FiniteSets, TLC

VARIABLES
    pc,                       \* "new" | "ready" | "failed" | "crashed"
    input,                    \* the constructor's arguments
    visible_size,
    latent_size,
    dtype,
    weights,                  \* "undefined" | how the buffer was filled
    lambda,                   \* "undefined" | "zeros"
    covariance,               \* "undefined" | "zeros" | "propagated"
    grads,                    \* "undefined" | "zeros" : weights.grad, covariance.grad
    layers_vec,
    parents,
    parents_bases,
    children,
    children_bases,
    latent_neighbors,
    latent_neighbors_bases,
    latent_presence_range,
    sample_covariance,
    sample_covariance_inv,
    sample_covariance_logdet,
    visible_covariance_grad,  \* the gradient seed backward() deposits
    result                    \* what the last call returned or raised

vars == <<pc, input, visible_size, latent_size, dtype, weights, lambda,
          covariance, grads, layers_vec, parents, parents_bases, children,
          children_bases, latent_neighbors, latent_neighbors_bases,
          latent_presence_range, sample_covariance, sample_covariance_inv,
          sample_covariance_logdet, visible_covariance_grad, result>>

\* Everything the solver object owns (all variables but the call record).
solverState == <<pc, input, visible_size, latent_size, dtype, weights, lambda,
                 covariance, grads, layers_vec, parents, parents_bases,
                 children, children_bases, latent_neighbors,
                 latent_neighbors_bases, latent_presence_range,
                 sample_covariance, sample_covariance_inv,
                 sample_covariance_logdet, visible_covariance_grad>>

---------------------------------------------------------------------------
\* Bounds of the explored inputs.

\* Compilation runs: at most MaxV visible and MaxL latent nodes, MaxEdges edges.
MaxV == 3
MaxL == 1
MaxEdges == 3
\* Lifecycle runs: tensor sides 0..MaxSide, structures of at most MaxSpecEdges
\* edges, NumCov distinct sample-covariance values.
MaxSide == 2
MaxSpecEdges == 0
NumCov == 2

---------------------------------------------------------------------------
\* 0-based arrays.

ZLen(a) == Cardinality(DOMAIN a)
ZEmpty == [i \in {} |-> 0]
Push(a, x) == [i \in 0..ZLen(a) |-> IF i < ZLen(a) THEN a[i] ELSE x]
Back(a) == a[ZLen(a) - 1]
ZFill(n, x) == [i \in 0..(n - 1) |-> x]
ZCat(a, b) == [i \in 0..(ZLen(a) + ZLen(b) - 1) |->
                 IF i < ZLen(a) THEN a[i] ELSE b[i - ZLen(a)]]

---------------------------------------------------------------------------
\* Tensors as the constructor's checks see them.

RECURSIVE Product(_)
Product(s) == IF s = <<>> THEN 1 ELSE Head(s) * Product(Tail(s))

TensorDim(t) == Len(t.dims)
\* An undefined tensor (torch::Tensor()) has no elements.
TensorNumel(t) == IF t.defined THEN Product(t.dims) ELSE 0
UndefinedTensor == [defined |-> FALSE, dims |-> <<0>>]

NoError == [raised |-> "none", line |-> 0]
Raise(kind, ln) == [raised |-> kind, line |-> ln]

---------------------------------------------------------------------------
\* init_parameters: the argument checks, in the code's order.  The two size()
\* reads come first; size(1) of a tensor of fewer than 2 dimensions raises an
\* index error before any TORCH_CHECK runs.

\* The dtype check without which a half-precision solver would be built.
DtypeSupportedAny(d) == TRUE

DtypeSupported(d) == d = "float" \/ d = "double"

ParametersAccepted(parameters, structure) ==
    TensorNumel(parameters) = 0 \/ parameters.dims = structure.dims

InitParametersError(in) ==
    LET structure == in.structure IN
    IF TensorDim(structure) < 2 THEN Raise("c10::IndexError", 71)
    ELSE IF ~structure.is_cuda THEN Raise("c10::Error", 77)
    ELSE IF TensorDim(structure) # 2 THEN Raise("c10::Error", 78)
    ELSE IF ~(TensorNumel(structure) > 0) THEN Raise("c10::Error", 79)
    ELSE IF ~(structure.dims[1] - structure.dims[2] >= 0) THEN Raise("c10::Error", 80)
    ELSE IF ~DtypeSupported(in.dtype) THEN Raise("c10::Error", 81)
    ELSE IF ~ParametersAccepted(in.parameters, structure) THEN Raise("c10::Error", 82)
    ELSE NoError

\* weights = base.to(options) * (parameters_exist ? structure : randn)
InitialWeights(in) ==
    IF TensorNumel(in.parameters) > 0 THEN "parameters * structure"
    ELSE "structure * randn"

---------------------------------------------------------------------------
\* make_structures.  S = [V, L, edges]: edges holds <<row, col>> for every true
\* entry of the structure matrix.

Has(S, p, c) == <<p + S.L, c>> \in S.edges

\* A layer record (declared in device_data.h): its index, the column it was
\* created at, the number of visible nodes counted in it, its latent width.
\* layers_vec[0], made by resize(1), is the empty sentinel.
SEMNANLayerData(idx, base) == [idx |-> idx, base |-> base, num |-> 0, lat_width |-> 0]
DefaultLayerData == [idx |-> 0, base |-> 0, num |-> 0, lat_width |-> 0]

\* The new-layer test with > for >= : a parent at the boundary is missed.
NewLayerNeededStrict(p, layer_max) == p > layer_max

\* "If parent does not belong to previous layer, make a new layer"
NewLayerNeeded(p, layer_max) == p >= layer_max

InitialLayerMax == -1

\* The state of the compilation before the loop over c (lines 122-127).
MakeStart(S) ==
    [layer_max |-> InitialLayerMax,
     edge_count |-> 0,
     parents_vec |-> ZFill(S.V, ZEmpty),
     children_vec |-> ZFill(1, ZFill(S.L + S.V, ZEmpty)),
     latent_presence_range |-> ZFill(S.L, ZFill(2, -1)),
     layers_vec |-> Push(ZFill(1, DefaultLayerData), SEMNANLayerData(1, 0))]

\* Lines 130-142: the first scan of column c, p = -L .. V-1.
RECURSIVE CollectParents(_, _, _, _)
CollectParents(S, c, p, st) ==
    IF p >= S.V THEN st
    ELSE IF ~Has(S, p, c) THEN CollectParents(S, c, p + 1, st)
    ELSE
      LET st1 == [st EXCEPT !.parents_vec[c] = Push(@, p)]
          st2 == IF NewLayerNeeded(p, st1.layer_max)
                 THEN [st1 EXCEPT
                         !.layer_max = c,
                         !.layers_vec = Push(@, SEMNANLayerData(ZLen(@), c)),
                         !.children_vec = Push(@, ZFill(S.L + S.V, ZEmpty))]
                 ELSE st1
      IN CollectParents(S, c, p + 1, [st2 EXCEPT !.edge_count = @ + 1])

\* Always writing both ends of the range: the first layer is forgotten.
PresenceSliceStartAlways(this_latent) == 0

\* Slice(this_latent[0] == -1 ? 0 : 1, 2)
PresenceSliceStart(this_latent) == IF this_latent[0] = -1 THEN 0 ELSE 1

\* The value written into the range: layers_vec.back().idx - 1.
PresenceValue(lv) == Back(lv).idx - 1

\* index_put_({Slice(from, 2)}, value)
SlicePut(this_latent, from, value) ==
    [i \in 0..1 |-> IF i >= from THEN value ELSE this_latent[i]]

\* Filing every child under the first bucket instead of the active layer's.
ChildBucketFirst(cv) == 0

\* children_vec.back()
ChildBucket(cv) == ZLen(cv) - 1

\* Lines 144-156: the second scan of column c.
RECURSIVE LinkChildren(_, _, _, _)
LinkChildren(S, c, p, st) ==
    IF p >= S.V THEN st
    ELSE IF ~Has(S, p, c) THEN LinkChildren(S, c, p + 1, st)
    ELSE
      LET r == p + S.L
          st1 == IF p < 0
                 THEN [st EXCEPT !.latent_presence_range[r] =
                          SlicePut(@, PresenceSliceStart(@), PresenceValue(st.layers_vec))]
                 ELSE st
          st2 == [st1 EXCEPT !.children_vec[ChildBucket(st.children_vec)][r] = Push(@, c)]
      IN LinkChildren(S, c, p + 1, st2)

\* Forgetting to count a node that opened a layer.
CountNodeUnlessOpened(lv, c) ==
    IF Back(lv).base = c /\ ZLen(lv) > 2 THEN lv
    ELSE [lv EXCEPT ![ZLen(lv) - 1].num = @ + 1]

\* layers_vec.back().num++
CountNode(lv, c) == [lv EXCEPT ![ZLen(lv) - 1].num = @ + 1]

\* Lines 129-159: the loop over the visible nodes.
RECURSIVE ForEachVisible(_, _, _)
ForEachVisible(S, c, st) ==
    IF c >= S.V THEN st
    ELSE
      LET a == CollectParents(S, c, -S.L, st)
          b == LinkChildren(S, c, -S.L, a)
      IN ForEachVisible(S, c + 1, [b EXCEPT !.layers_vec = CountNode(@, c)])

\* Lines 161-170: parents and parents_bases.
RECURSIVE FlattenParents(_, _, _)
FlattenParents(parents_vec, c, acc) ==
    IF c >= ZLen(parents_vec) THEN acc
    ELSE
      LET flat == ZCat(acc.parents, parents_vec[c])
      IN FlattenParents(parents_vec, c + 1,
           [parents |-> flat,
            parents_bases |-> [acc.parents_bases EXCEPT ![c + 1] = ZLen(flat)]])

ParentsData(st, V) ==
    FlattenParents(st.parents_vec, 0,
                   [parents |-> ZEmpty, parents_bases |-> ZFill(V + 1, 0)])

\* Lines 179-184: one node's buckets, l = 0 .. children_vec.size()-1.
RECURSIVE FlattenBuckets(_, _, _, _)
FlattenBuckets(children_vec, r, l, acc) ==
    IF l >= ZLen(children_vec) THEN acc
    ELSE
      LET flat == ZCat(acc.children, children_vec[l][r])
      IN FlattenBuckets(children_vec, r, l + 1,
           [children |-> flat,
            children_bases |-> [acc.children_bases EXCEPT ![r][l + 1] = ZLen(flat)]])

\* Restarting the running offset at every node (idx declared inside the loop).
RowStartZero(acc) == 0

\* children_bases.index_put_({p + latent_size, 0}, idx)
RowStart(acc) == ZLen(acc.children)

\* Lines 176-185: the loop over all nodes.
RECURSIVE FlattenChildren(_, _, _)
FlattenChildren(children_vec, r, acc) ==
    IF r >= ZLen(acc.children_bases) THEN acc
    ELSE
      LET a == [acc EXCEPT !.children_bases[r][0] = RowStart(acc)]
      IN FlattenChildren(children_vec, r + 1, FlattenBuckets(children_vec, r, 0, a))

ChildrenData(st, total_size) ==
    FlattenChildren(st.children_vec, 0,
                    [children |-> ZEmpty,
                     children_bases |-> ZFill(total_size, ZFill(ZLen(st.layers_vec), 0))])

\* Lines 190-197: the indices l at which latent_neighbors_vec[l] is accessed.
LatentNeighborAccesses(lpr) ==
    UNION {lpr[r][0] .. lpr[r][1] : r \in DOMAIN lpr}

\* latent_neighbors_vec[l] after the loop, for an l inside the vector: the
\* latents v (ascending) whose range covers l.
RECURSIVE LatentsCovering(_, _, _, _)
LatentsCovering(lpr, L, r, l) ==
    IF r >= L THEN ZEmpty
    ELSE ZCat(IF lpr[r][0] <= l /\ l <= lpr[r][1] THEN ZFill(1, r - L) ELSE ZEmpty,
              LatentsCovering(lpr, L, r + 1, l))

\* latent_neighbors_count: one per access, in range or not.
RECURSIVE LatentNeighborsCount(_, _)
LatentNeighborsCount(lpr, r) ==
    IF r >= ZLen(lpr) THEN 0
    ELSE (IF lpr[r][1] >= lpr[r][0] THEN lpr[r][1] - lpr[r][0] + 1 ELSE 0)
         + LatentNeighborsCount(lpr, r + 1)

\* Lines 199-209: latent_neighbors (zero-filled to latent_neighbors_count),
\* latent_neighbors_bases and each layer's lat_width.
RECURSIVE FlattenNeighbors(_, _, _, _)
FlattenNeighbors(lpr, L, l, acc) ==
    IF l >= ZLen(acc.layers_vec) THEN acc
    ELSE
      LET mine == LatentsCovering(lpr, L, 0, l)
          flat == ZCat(acc.written, mine)
      IN FlattenNeighbors(lpr, L, l + 1,
           [written |-> flat,
            latent_neighbors_bases |-> [acc.latent_neighbors_bases EXCEPT ![l + 1] = ZLen(flat)],
            layers_vec |-> [acc.layers_vec EXCEPT ![l].lat_width = ZLen(mine)]])

NeighborsData(st, L) ==
    LET n == ZLen(st.layers_vec)
        a == FlattenNeighbors(st.latent_presence_range, L, 0,
               [written |-> ZEmpty,
                latent_neighbors_bases |-> ZFill(n + 1, 0),
                layers_vec |-> st.layers_vec])
        count == LatentNeighborsCount(st.latent_presence_range, 0)
    IN [latent_neighbors |-> ZCat(a.written, ZFill(count - ZLen(a.written), 0)),
        latent_neighbors_bases |-> a.latent_neighbors_bases,
        layers_vec |-> a.layers_vec]

\* make_structures as a whole.  out_of_bounds: some latent_neighbors_vec[l] was
\* accessed outside 0 .. num_layers-1 (undefined behaviour at line 194).
MakeStructuresFrom(S, st, pd, cd, nd) ==
    [layers_vec |-> nd.layers_vec,
     parents |-> pd.parents,
     parents_bases |-> pd.parents_bases,
     children |-> cd.children,
     children_bases |-> cd.children_bases,
     latent_neighbors |-> nd.latent_neighbors,
     latent_neighbors_bases |-> nd.latent_neighbors_bases,
     latent_presence_range |-> st.latent_presence_range,
     edge_count |-> st.edge_count,
     out_of_bounds |->
         \E l \in LatentNeighborAccesses(st.latent_presence_range) :
             l < 0 \/ l >= ZLen(st.layers_vec)]

MakeStructures(S) ==
    LET st == CHOOSE x \in {ForEachVisible(S, 0, MakeStart(S))} : TRUE
    IN MakeStructuresFrom(S, st, ParentsData(st, S.V), ChildrenData(st, S.L + S.V),
                          NeighborsData(st, S.L))

---------------------------------------------------------------------------
\* The sample covariance and its cached derivatives.  A matrix value is named by
\* "id"; inverse and logdet are kept symbolic: fn says what was computed from
\* matrix id.

NoTensor == [defined |-> FALSE, dims |-> <<0>>, fn |-> "none", id |-> 0, dtype |-> "none"]

\* sample_covariance.to(this->weights.options())
ToOptions(t, dt) == [t EXCEPT !.dtype = dt]

\* torch::inverse: same shape.  torch::logdet: a 0-dimensional scalar.
Inverse(t) == [t EXCEPT !.fn = "inverse"]
Logdet(t) == [t EXCEPT !.fn = "logdet", !.dims = <<>>]

\* Accepting any square matrix, whatever its side.
SetSampleCovarianceErrorNoSize(arg, V) ==
    IF TensorDim(arg) # 2 THEN Raise("c10::Error", 280)
    ELSE IF arg.dims[1] # arg.dims[2] THEN Raise("c10::Error", 281)
    ELSE NoError

\* The three checks of set_sample_covariance.
SetSampleCovarianceError(arg, V) ==
    IF TensorDim(arg) # 2 THEN Raise("c10::Error", 280)
    ELSE IF arg.dims[1] # arg.dims[2] THEN Raise("c10::Error", 281)
    ELSE IF arg.dims[1] # V THEN Raise("c10::Error", 282)
    ELSE NoError

\* get_sample_covariance_inv / _logdet: the cache after the call.  Inverting an
\* undefined tensor raises, and the cache stays as it was.
CacheMiss(cache) == TensorNumel(cache) = 0
InvAfterGet(cache, sc) == IF CacheMiss(cache) /\ sc.defined THEN Inverse(sc) ELSE cache
LogdetAfterGet(cache, sc) == IF CacheMiss(cache) /\ sc.defined THEN Logdet(sc) ELSE cache
GetRaises(cache, sc) == CacheMiss(cache) /\ ~sc.defined

NoValue == [inv_of |-> 0, logdet_of |-> 0]
NoGrad == [slot |-> 0, inv_of |-> 0, minus_cov_inverse |-> FALSE]

\* The record of a call: what was called, what it raised and where, the shape of
\* its argument, and the cached values a loss or gradient was computed from.
Called(op, err, arg, value) ==
    [op |-> op, raised |-> err.raised, line |-> err.line, arg |-> arg.dims,
     value |-> value]

---------------------------------------------------------------------------
\* Inputs.

\* All subsets of cells with at most k elements.
RECURSIVE SubsetsUpTo(_, _)
SubsetsUpTo(cells, k) ==
    IF k = 0 THEN {{}}
    ELSE LET smaller == SubsetsUpTo(cells, k - 1)
         IN smaller \cup {E \cup {x} : E \in smaller, x \in cells}

Cells(rows, cols) == (0..(rows - 1)) \X (0..(cols - 1))

Shapes(minSide, maxLen) ==
    UNION {[1..k -> minSide..MaxSide] : k \in 0..maxLen}

WellFormed(dims) == Len(dims) = 2 /\ dims[2] > 0 /\ dims[1] >= dims[2]

StructureTensors(dims, maxEdges) ==
    {[defined |-> TRUE, dims |-> dims, is_cuda |-> cuda, edges |-> E] :
        cuda \in BOOLEAN,
        E \in IF WellFormed(dims)
              THEN SubsetsUpTo(Cells(dims[1], dims[2]), maxEdges)
              ELSE {{}}}

\* No parameters (the binding passes torch::Tensor()), parameters of the
\* structure's shape, an empty tensor, and a non-empty one of another shape.
ParameterTensors(dims) ==
    {UndefinedTensor,
     [defined |-> TRUE, dims |-> dims],
     [defined |-> TRUE, dims |-> <<0>>],
     [defined |-> TRUE, dims |-> dims \o <<1>>]}

Dtypes == {"float", "double", "half"}

ConstructorInputs ==
    {[structure |-> st, parameters |-> pa, dtype |-> dt] :
        <<st, pa>> \in UNION {StructureTensors(d, MaxSpecEdges) \X ParameterTensors(d) :
                               d \in Shapes(0, 3)},
        dt \in Dtypes}

CompileInputs ==
    {[structure |-> [defined |-> TRUE, dims |-> <<L + V, V>>, is_cuda |-> TRUE, edges |-> E],
      parameters |-> UndefinedTensor,
      dtype |-> "float"] :
        <<L, V, E>> \in UNION {{<<l, v, e>> : e \in SubsetsUpTo(Cells(l + v, v), MaxEdges)} :
                                 <<l, v>> \in (0..MaxL) \X (1..MaxV)}}

\* The inputs of the lifecycle runs: accepted ones, single precision (the sample
\* covariances arrive in double precision and are converted).
LifecycleInputs ==
    {in \in ConstructorInputs :
        /\ WellFormed(in.structure.dims)
        /\ in.structure.is_cuda
        /\ ~in.parameters.defined
        /\ in.dtype = "float"}

SampleCovarianceArgs ==
    {[defined |-> TRUE, dims |-> d, fn |-> "value", id |-> i, dtype |-> "double"] :
        d \in Shapes(1, 2) \ {<<>>}, i \in 1..NumCov}

StructureOf(in) ==
    [V |-> in.structure.dims[2],
     L |-> in.structure.dims[1] - in.structure.dims[2],
     edges |-> in.structure.edges]

---------------------------------------------------------------------------
\* The state machine.

Blank(in) ==
    /\ pc = "new"
    /\ input = in
    /\ visible_size = 0
    /\ latent_size = 0
    /\ dtype = "none"
    /\ weights = "undefined"
    /\ lambda = "undefined"
    /\ covariance = "undefined"
    /\ grads = "undefined"
    /\ layers_vec = ZEmpty
    /\ parents = ZEmpty
    /\ parents_bases = ZEmpty
    /\ children = ZEmpty
    /\ children_bases = ZEmpty
    /\ latent_neighbors = ZEmpty
    /\ latent_neighbors_bases = ZEmpty
    /\ latent_presence_range = ZEmpty
    /\ sample_covariance = NoTensor
    /\ sample_covariance_inv = NoTensor
    /\ sample_covariance_logdet = NoTensor
    /\ visible_covariance_grad = NoGrad
    /\ result = Called("none", NoError, NoTensor, NoValue)

Init == \E in \in LifecycleInputs : Blank(in)

InitConstruct == \E in \in ConstructorInputs \cup CompileInputs : Blank(in)

\* How a constructor run that indexed latent_neighbors_vec out of bounds may
\* end: the process dies, or the stray write lands outside every object the
\* solver reads and construction completes.
Outcomes(ms) == IF ms.out_of_bounds THEN {"ready", "crashed"} ELSE {"ready"}

\* SEMNANSolver::SEMNANSolver : init_parameters, then make_structures.
Construct ==
    /\ pc = "new"
    /\ LET err == InitParametersError(input) IN
       IF err.raised # "none"
       THEN /\ pc' = "failed"
            /\ result' = Called("SEMNANSolver", err, NoTensor, NoValue)
            /\ UNCHANGED <<input, visible_size, latent_size, dtype, weights, lambda,
                           covariance, grads, layers_vec, parents, parents_bases,
                           children, children_bases, latent_neighbors,
                           latent_neighbors_bases, latent_presence_range,
                           sample_covariance, sample_covariance_inv,
                           sample_covariance_logdet, visible_covariance_grad>>
       ELSE LET S == StructureOf(input) IN
            \E ms \in {MakeStructures(S)} :
               /\ pc' \in Outcomes(ms)
               /\ visible_size' = S.V
               /\ latent_size' = S.L
               /\ dtype' = input.dtype
               /\ weights' = InitialWeights(input)
               /\ lambda' = "zeros"
               /\ covariance' = "zeros"
               /\ grads' = "zeros"
               /\ layers_vec' = ms.layers_vec
               /\ parents' = ms.parents
               /\ parents_bases' = ms.parents_bases
               /\ children' = ms.children
               /\ children_bases' = ms.children_bases
               /\ latent_neighbors' = ms.latent_neighbors
               /\ latent_neighbors_bases' = ms.latent_neighbors_bases
               /\ latent_presence_range' = ms.latent_presence_range
               /\ result' = Called("SEMNANSolver", NoError, NoTensor, NoValue)
               /\ UNCHANGED <<input, sample_covariance, sample_covariance_inv,
                              sample_covariance_logdet, visible_covariance_grad>>

\* set_sample_covariance(arg)
SetSampleCovariance(arg) ==
    /\ pc = "ready"
    /\ LET err == SetSampleCovarianceError(arg, visible_size) IN
       /\ result' = Called("set_sample_covariance", err, arg, NoValue)
       /\ sample_covariance' =
            IF err.raised = "none" THEN ToOptions(arg, dtype) ELSE sample_covariance
    /\ UNCHANGED <<pc, input, visible_size, latent_size, dtype, weights, lambda,
                   covariance, grads, layers_vec, parents, parents_bases, children,
                   children_bases, latent_neighbors, latent_neighbors_bases,
                   latent_presence_range, sample_covariance_inv,
                   sample_covariance_logdet, visible_covariance_grad>>

\* kullback_leibler_proxy_loss()
ProxyLoss ==
    /\ pc = "ready"
    /\ sample_covariance_inv' = InvAfterGet(sample_covariance_inv, sample_covariance)
    /\ result' =
         IF GetRaises(sample_covariance_inv, sample_covariance)
         THEN Called("kullback_leibler_proxy_loss", Raise("c10::Error", 290), NoTensor, NoValue)
         ELSE Called("kullback_leibler_proxy_loss", NoError, NoTensor,
                     [inv_of |-> sample_covariance_inv'.id, logdet_of |-> 0])
    /\ UNCHANGED <<pc, input, visible_size, latent_size, dtype, weights, lambda,
                   covariance, grads, layers_vec, parents, parents_bases, children,
                   children_bases, latent_neighbors, latent_neighbors_bases,
                   latent_presence_range, sample_covariance,
                   sample_covariance_logdet, visible_covariance_grad>>

\* kullback_leibler_loss(): the proxy loss first, then the log-determinant.
KullbackLeiblerLoss ==
    /\ pc = "ready"
    /\ sample_covariance_inv' = InvAfterGet(sample_covariance_inv, sample_covariance)
    /\ IF GetRaises(sample_covariance_inv, sample_covariance)
       THEN /\ result' = Called("kullback_leibler_loss", Raise("c10::Error", 290),
                                NoTensor, NoValue)
            /\ UNCHANGED sample_covariance_logdet
       ELSE /\ sample_covariance_logdet' =
                 LogdetAfterGet(sample_covariance_logdet, sample_covariance)
            /\ result' = Called("kullback_leibler_loss", NoError, NoTensor,
                                [inv_of |-> sample_covariance_inv'.id,
                                 logdet_of |-> sample_covariance_logdet'.id])
    /\ UNCHANGED <<pc, input, visible_size, latent_size, dtype, weights, lambda,
                   covariance, grads, layers_vec, parents, parents_bases, children,
                   children_bases, latent_neighbors, latent_neighbors_bases,
                   latent_presence_range, sample_covariance, visible_covariance_grad>>

\* forward(): the kernel recomputes the covariance in place.
Forward ==
    /\ pc = "ready"
    /\ covariance' = "propagated"
    /\ result' = Called("forward", NoError, NoTensor, NoValue)
    /\ UNCHANGED <<pc, input, visible_size, latent_size, dtype, weights, lambda,
                   grads, layers_vec, parents, parents_bases, children,
                   children_bases, latent_neighbors, latent_neighbors_bases,
                   latent_presence_range, sample_covariance, sample_covariance_inv,
                   sample_covariance_logdet, visible_covariance_grad>>

\* backward(): kullback_leibler_loss_backward deposits the seed
\* inverse(sample covariance) - inverse(visible covariance) in the gradient
\* buffer of parity (num_layers + 1) % 2, then the kernel runs.  The copy of the
\* cached inverse is made before the visible covariance is inverted; inverting
\* the all-zero covariance of a solver that never ran forward() raises.
Backward ==
    /\ pc = "ready"
    /\ sample_covariance_inv' = InvAfterGet(sample_covariance_inv, sample_covariance)
    /\ IF GetRaises(sample_covariance_inv, sample_covariance)
       THEN /\ result' = Called("backward", Raise("c10::Error", 290), NoTensor, NoValue)
            /\ UNCHANGED <<visible_covariance_grad, grads>>
       ELSE /\ visible_covariance_grad' =
                 [slot |-> (ZLen(layers_vec) + 1) % 2,
                  inv_of |-> sample_covariance_inv'.id,
                  minus_cov_inverse |-> covariance = "propagated"]
            /\ IF covariance = "propagated"
               THEN /\ grads' = "backpropagated"
                    /\ result' = Called("backward", NoError, NoTensor,
                                        [inv_of |-> sample_covariance_inv'.id,
                                         logdet_of |-> 0])
               ELSE /\ grads' = grads
                    /\ result' = Called("backward", Raise("c10::Error", 273), NoTensor,
                                        [inv_of |-> sample_covariance_inv'.id,
                                         logdet_of |-> 0])
    /\ UNCHANGED <<pc, input, visible_size, latent_size, dtype, weights, lambda,
                   covariance, layers_vec, parents, parents_bases, children,
                   children_bases, latent_neighbors, latent_neighbors_bases,
                   latent_presence_range, sample_covariance,
                   sample_covariance_logdet>>

Next ==
    \/ Construct
    \/ \E arg \in SampleCovarianceArgs : SetSampleCovariance(arg)
    \/ ProxyLoss
    \/ KullbackLeiblerLoss
    \/ Forward
    \/ Backward

Spec == Init /\ [][Next]_vars

\* The constructor alone: over every structure within MaxV, MaxL, MaxEdges, and
\* over the malformed arguments.
ConstructSpec == InitConstruct /\ [][Construct]_vars

---------------------------------------------------------------------------
\* Vocabulary of the properties.

\* make_structures has run (whether or not the constructor then completed).
Built == pc \in {"ready", "crashed"}

Visible == 0..(visible_size - 1)
Latent == (-latent_size)..(-1)
Positions == DOMAIN layers_vec

Edge(p, c) == <<p + latent_size, c>> \in input.structure.edges
EdgeTotal == Cardinality(input.structure.edges)
ParentsOf(c) == {p \in Latent \cup Visible : Edge(p, c)}
ChildrenOf(p) == {c \in Visible : Edge(p, c)}

\* Every visible parent has a smaller column index than its child.
TopologicallyOrdered == \A c \in Visible : \A p \in Visible : Edge(p, c) => p < c

\* The visible subgraph has a topological ranking.
Acyclic ==
    \E rank \in [Visible -> Visible] :
        \A c \in Visible : \A p \in Visible : Edge(p, c) => rank[p] < rank[c]

\* The number of nodes counted in the layers before position k.
RECURSIVE NumBefore(_)
NumBefore(k) == IF k = 0 THEN 0 ELSE layers_vec[k - 1].num + NumBefore(k - 1)

\* The positions of the layer records node c is counted in: nodes are counted
\* in column order, each in the record that is last when it is reached.
LayersOf(c) ==
    {k \in Positions : NumBefore(k) <= c /\ c < NumBefore(k) + layers_vec[k].num}

IdxOf(c) == {layers_vec[k].idx : k \in LayersOf(c)}

\* The visible parents of every node lie in layers of strictly smaller index.
ParentsInEarlierLayers ==
    \A c \in Visible : \A p \in Visible :
        Edge(p, c) => \A i \in IdxOf(c) : \A j \in IdxOf(p) : j < i

EachNodeInOneLayer ==
    /\ NumBefore(ZLen(layers_vec)) = visible_size
    /\ \A c \in Visible : Cardinality(LayersOf(c)) = 1

LayeringIsSound == EachNodeInOneLayer /\ ParentsInEarlierLayers

---------------------------------------------------------------------------
\* C1.  A loss query or the gradient seed of backward() reads the inverse and
\* the log-determinant of the sample covariance stored at that moment, never
\* those of a sample covariance that has been replaced.
C1_LossUsesCurrentSampleCovariance ==
    (/\ pc = "ready"
     /\ result.op \in {"kullback_leibler_proxy_loss", "kullback_leibler_loss", "backward"}
     /\ result.value # NoValue)
    => /\ result.value.inv_of = sample_covariance.id
       /\ result.op = "kullback_leibler_loss"
            => result.value.logdet_of = sample_covariance.id

\* C2 as stated.  For every structure whose visible part is acyclic, every
\* visible node is counted in exactly one layer and every visible parent lies
\* in a layer of strictly smaller index.
C2_AnyDagLayering == (Built /\ Acyclic) => LayeringIsSound

\* C2 as amended.  For every structure whose visible columns are in
\* topological order, every visible node is counted in exactly one layer (the
\* counts sum to V) and every visible parent lies in a layer of strictly
\* smaller index.
C2_TopologicalLayering == (Built /\ TopologicallyOrdered) => LayeringIsSound

C2_Witness ==
    /\ Built
    /\ TopologicallyOrdered
    /\ ZLen(layers_vec) >= 3
    /\ \E c \in Visible : \E p \in Visible : Edge(p, c)

\* children_bases read row by row.
FlatChildrenBases ==
    [i \in 0..((latent_size + visible_size) * ZLen(layers_vec) - 1) |->
        children_bases[i \div ZLen(layers_vec)][i % ZLen(layers_vec)]]

Monotone(a) == \A i \in DOMAIN a : \A j \in DOMAIN a : i <= j => a[i] <= a[j]

\* C3.  parents_bases is monotone non-decreasing from 0 to the number of true
\* entries of the structure; children_bases, read row by row, is monotone
\* non-decreasing and ends at that same number.
C3_OffsetsMonotone ==
    Built =>
       /\ DOMAIN parents_bases = 0..visible_size
       /\ parents_bases[0] = 0
       /\ Monotone(parents_bases)
       /\ parents_bases[visible_size] = EdgeTotal
       /\ Monotone(FlatChildrenBases)
       /\ Back(FlatChildrenBases) = EdgeTotal

C3_Witness ==
    /\ Built
    /\ EdgeTotal >= 2
    /\ \E r \in DOMAIN children_bases :
          r > 0 /\ children_bases[r][0] > 0 /\ children_bases[r][0] < EdgeTotal

ValidSampleCovarianceShape(dims) ==
    Len(dims) = 2 /\ dims[1] = dims[2] /\ dims[1] = visible_size

\* C4.  A set_sample_covariance call whose argument is not 2-dimensional, not
\* square or not of side V raises, and changes nothing the solver holds: the
\* stored sample covariance, its cached inverse and log-determinant, and every
\* other buffer are as before the call.
C4_RejectedSampleCovarianceChangesNothing ==
    [][ (result'.op = "set_sample_covariance"
         /\ ~ValidSampleCovarianceShape(result'.arg))
        => (result'.raised = "c10::Error" /\ UNCHANGED solverState) ]_vars

C4_Witness ==
    /\ result.op = "set_sample_covariance"
    /\ result.raised = "c10::Error"
    /\ sample_covariance.defined
    /\ sample_covariance_inv.defined
    /\ sample_covariance_logdet.defined

NothingCreated ==
    /\ pc = "failed"
    /\ result.raised \in {"c10::Error", "c10::IndexError"}
    /\ weights = "undefined"
    /\ lambda = "undefined"
    /\ covariance = "undefined"
    /\ grads = "undefined"

MalformedStructureOrDtype ==
    \/ TensorDim(input.structure) # 2
    \/ TensorNumel(input.structure) = 0
    \/ input.structure.dims[1] < input.structure.dims[2]
    \/ input.dtype \notin {"float", "double"}

\* C5 as stated.  Construction fails, with no buffer created, for a structure
\* that is not 2-dimensional, has no element or has fewer rows than columns, for
\* a precision other than single or double, and for any supplied parameters
\* whose shape differs from the structure's.
C5_MalformedRejected ==
    (/\ pc # "new"
     /\ \/ MalformedStructureOrDtype
        \/ input.parameters.defined /\ input.parameters.dims # input.structure.dims)
    => NothingCreated

\* C5 as amended.  The same, for supplied parameters that have at least one
\* element: an empty parameters tensor is taken as "no parameters".
C5_MalformedNonEmptyRejected ==
    (/\ pc # "new"
     /\ \/ MalformedStructureOrDtype
        \/ /\ input.parameters.defined
           /\ TensorNumel(input.parameters) > 0
           /\ input.parameters.dims # input.structure.dims)
    => NothingCreated

C5_Witness ==
    /\ pc = "failed"
    /\ input.structure.is_cuda
    /\ TensorDim(input.structure) = 2
    /\ TensorNumel(input.structure) > 0
    /\ input.structure.dims[1] >= input.structure.dims[2]
    /\ input.dtype = "float"
    /\ input.parameters.defined
    /\ TensorNumel(input.parameters) > 0

\* The columns a layer record covers, by the start it was created with.
NodesOf(k) ==
    {c \in Visible : layers_vec[k].base <= c /\ c < layers_vec[k].base + layers_vec[k].num}

\* C6.  With the visible columns in topological order the layers are
\* contiguous runs of columns, the layer index does not decrease along the
\* columns, every visible parent lies in a layer of strictly smaller index, and
\* no edge joins two visible nodes of one layer.
C6_TopologicalRuns ==
    (Built /\ TopologicallyOrdered) =>
       /\ \A k \in Positions : k >= 1 => layers_vec[k].idx = k
       /\ \A k \in Positions : NodesOf(k) = {c \in Visible : k \in LayersOf(c)}
       /\ \A c \in Visible : \E k \in Positions : c \in NodesOf(k)
       /\ \A k \in Positions : \A m \in Positions : \A c \in NodesOf(k) : \A d \in NodesOf(m) :
             (c <= d => k <= m) /\ (k = m /\ c <= d => \A e \in c..d : e \in NodesOf(k))
       /\ \A k \in Positions : \A m \in Positions : \A c \in NodesOf(k) : \A p \in NodesOf(m) :
             Edge(p, c) => m < k

C6_Witness ==
    /\ Built
    /\ TopologicallyOrdered
    /\ \E k \in Positions : layers_vec[k].num >= 2
    /\ \E k \in Positions : k >= 2 /\ layers_vec[k].num >= 1 /\ layers_vec[k - 1].num >= 1
    /\ \E c \in Visible : \E p \in Visible : Edge(p, c)

\* C7.  For topologically ordered structures every layer from index 1 on is
\* non-empty, and a node opens a layer only when one of its parents is a visible
\* node of the run being built; a latent parent alone never opens one.
C7_MaximalRuns ==
    (Built /\ TopologicallyOrdered) =>
       /\ \A k \in Positions : k >= 1 => layers_vec[k].num > 0
       /\ \A k \in Positions :
             k >= 2 => \E p \in Visible :
                          /\ Edge(p, layers_vec[k].base)
                          /\ layers_vec[k - 1].base <= p
                          /\ p < layers_vec[k].base

\* The idx of the layer records the children of latent node v are counted in.
ChildLayerIdx(v) == UNION {IdxOf(c) : c \in ChildrenOf(v)}

IsMin(x, set) == x \in set /\ \A y \in set : x <= y
IsMax(x, set) == x \in set /\ \A y \in set : y <= x

\* C8 as stated.  For a latent node with a child, latent_presence_range holds
\* the smallest and the largest idx of the layer records its children are
\* counted in.
C8_PresenceRangeIsIdx ==
    Built => \A v \in Latent :
        ChildrenOf(v) # {} =>
           /\ IsMin(latent_presence_range[v + latent_size][0], ChildLayerIdx(v))
           /\ IsMax(latent_presence_range[v + latent_size][1], ChildLayerIdx(v))

\* C8 as amended.  It holds those two idx values less one: the code stores
\* layers_vec.back().idx - 1.
C8_PresenceRangeIsIdxLessOne ==
    Built => \A v \in Latent :
        ChildrenOf(v) # {} =>
           /\ IsMin(latent_presence_range[v + latent_size][0] + 1, ChildLayerIdx(v))
           /\ IsMax(latent_presence_range[v + latent_size][1] + 1, ChildLayerIdx(v))

C8_Witness ==
    /\ Built
    /\ \E v \in Latent :
          /\ latent_presence_range[v + latent_size][0] >= 0
          /\ latent_presence_range[v + latent_size][0] < latent_presence_range[v + latent_size][1]

\* The entries of array a at offsets lo .. hi-1.
Entries(a, lo, hi) == {a[i] : i \in {j \in DOMAIN a : lo <= j /\ j < hi}}

\* C9.  parents lists, for each visible node, exactly its parents in ascending
\* order (latents, negative, first); children lists, for each node and each
\* layer k >= 1, exactly the children of the node counted in layer k, between
\* the node's offsets k-1 and k; every edge appears once.
C9_AdjacencyIsEdgeSet ==
    Built =>
       /\ ZLen(parents) = EdgeTotal
       /\ ZLen(children) = EdgeTotal
       /\ \A c \in Visible :
             /\ Entries(parents, parents_bases[c], parents_bases[c + 1]) = ParentsOf(c)
             /\ parents_bases[c + 1] - parents_bases[c] = Cardinality(ParentsOf(c))
             /\ \A i \in DOMAIN parents : \A j \in DOMAIN parents :
                   (parents_bases[c] <= i /\ i < j /\ j < parents_bases[c + 1])
                   => parents[i] < parents[j]
       /\ \A p \in Latent \cup Visible : \A k \in Positions :
             k >= 1 =>
               LET lo == children_bases[p + latent_size][k - 1]
                   hi == children_bases[p + latent_size][k]
                   mine == {c \in ChildrenOf(p) : k \in LayersOf(c)}
               IN /\ Entries(children, lo, hi) = mine
                  /\ hi - lo = Cardinality(mine)

C9_Witness ==
    /\ Built
    /\ \E p \in Latent \cup Visible : \E k \in Positions : \E m \in Positions :
          /\ 1 <= k /\ k < m
          /\ children_bases[p + latent_size][k - 1] < children_bases[p + latent_size][k]
          /\ children_bases[p + latent_size][m - 1] < children_bases[p + latent_size][m]
    /\ \E c \in Visible : Cardinality(ParentsOf(c)) >= 2

\* C10.  Every index at which the per-layer latent-neighbour lists are accessed
\* while latent_neighbors is built lies in 0 .. num_layers-1.
C10_NeighborIndexInRange ==
    Built => \A l \in LatentNeighborAccesses(latent_presence_range) :
                0 <= l /\ l < ZLen(layers_vec)

=============================================================================
